---------------------------- MODULE Spec2Model ----------------------------
(***************************************************************************)
(* Model of the Polymarket Gamma polling feed                              *)
(* (connectors/polymarket/gamma_poll_stream.py) and of the shadow broker   *)
(* (execution/shadow.py, execution/base.py).                               *)
(*                                                                         *)
(* Python floats are IEEE-754 doubles.  A non-negative double x that is a  *)
(* multiple of 2^-63 and below 2^9 is written as the three base-2^24 limbs *)
(* <<h, m, l>> of the integer x * 2^63, so that addition, subtraction and  *)
(* comparison are computed exactly and then rounded to 53 significant bits *)
(* (round-half-even) precisely where the hardware rounds.  None is the     *)
(* empty tuple.                                                            *)
(***************************************************************************)
EXTENDS Integers, Sequences, FiniteSets, TLC

----------------------------------------------------------------------------
(* Floating point                                                          *)

LimbBase == 16777216

MantissaBits == 53

None == << >>

Zero == <<0, 0, 0>>

\* float("0.4"), float("0.41"), float("0.42")
P40 == <<13107, 3355443, 3355648>>

P41 == <<13434, 14763950, 1341952>>

P42 == <<13762, 9395240, 16105984>>

\* The largest multiple of 2^-63 below the double 1e-9 (which is no such
\* multiple): for d a multiple of 2^-63, d < 1e-9 iff d <= TolFloor.
TolFloor == <<0, 549, 12680452>>

IsNone(v) == v = None

\* Carry propagation of a limb triple whose low limbs may exceed the base.
Norm(h, m, l) ==
    LET m2 == m + (l \div LimbBase)
    IN  << h + (m2 \div LimbBase), m2 % LimbBase, l % LimbBase >>

FLe(x, y) ==
    \/ x[1] < y[1]
    \/ x[1] = y[1] /\ x[2] < y[2]
    \/ x[1] = y[1] /\ x[2] = y[2] /\ x[3] <= y[3]

FGe(x, y) == FLe(y, x)

BitLenLimb(n) == CHOOSE k \in 0..26 : n < 2^k /\ (k = 0 \/ n >= 2^(k-1))

BitLen(x) ==
    IF x[1] > 0 THEN 48 + BitLenLimb(x[1])
    ELSE IF x[2] > 0 THEN 24 + BitLenLimb(x[2])
    ELSE BitLenLimb(x[3])

\* The one element of a singleton set.  Operators below take their arguments
\* through a singleton so that each argument is evaluated once.
The(S) == CHOOSE v \in S : TRUE

\* Round an exact value to MantissaBits significant bits, ties to even.
RoundDouble(exact) ==
    The({ LET sh == BitLen(x) - MantissaBits
          IN  IF sh <= 0 THEN x
              ELSE LET q    == 2^sh
                       r    == x[3] % q
                       odd  == (x[3] \div q) % 2 = 1
                       up   == r > (q \div 2) \/ (r = (q \div 2) /\ odd)
                   IN  Norm(x[1], x[2], (x[3] - r) + (IF up THEN q ELSE 0))
          : x \in {exact} })

\* a + b on doubles
FAdd(a, b) ==
    The({ RoundDouble(Norm(x[1] + y[1], x[2] + y[2], x[3] + y[3]))
          : x \in {a}, y \in {b} })

\* abs(a - b) on doubles
FAbsDiff(a, b) ==
    The({ LET hi == IF FGe(x, y) THEN x ELSE y
              lo == IF FGe(x, y) THEN y ELSE x
              l  == hi[3] - lo[3]
              bl == IF l < 0 THEN 1 ELSE 0
              m  == hi[2] - lo[2] - bl
              bm == IF m < 0 THEN 1 ELSE 0
          IN  RoundDouble(<< hi[1] - lo[1] - bm, m + bm * LimbBase, l + bl * LimbBase >>)
          : x \in {a}, y \in {b} })

\* 0.5 * a on doubles (exact: every value here is an even number of units)
FHalf(a) ==
    The({ << x[1] \div 2,
             (x[2] + (x[1] % 2) * LimbBase) \div 2,
             (x[3] + (x[2] % 2) * LimbBase) \div 2 >>
          : x \in {a} })

\* abs(float(a) - float(b)) < 1e-9
Near(a, b) == \E d \in {FAbsDiff(a, b)} : FLe(d, TolFloor)

----------------------------------------------------------------------------
(* Decoded JSON values and the snapshot                                    *)

\* A decoded JSON value: null (also what dict.get gives for a missing key),
\* a number, or a string.
JNull == [k |-> "null", v |-> None, s |-> ""]

JNum(f) == [k |-> "num", v |-> f, s |-> ""]

JStr(t) == [k |-> "str", v |-> None, s |-> t]

\* Python truth value: None, 0, 0.0 and "" are false.
Truthy(j) ==
    CASE j.k = "null" -> FALSE
      [] j.k = "num"  -> j.v # Zero
      [] j.k = "str"  -> j.s # ""

\* a or b
PyOr(a, b) == IF Truthy(a) THEN a ELSE b

\* float(s) for a string: the value, or None where float() raises ValueError.
FloatOfStr(t) ==
    CASE t = "0.41" -> P41
      [] t = "0"    -> Zero
      [] OTHER      -> None

\* _to_float(v)
ToFloat(j) ==
    CASE j.k = "null" -> None
      [] j.k = "num"  -> j.v
      [] j.k = "str"  -> FloatOfStr(j.s)

\* str(x) of an integer id
IntStr(n) == CASE n = 1 -> "1" [] n = 2 -> "2" [] OTHER -> "0"

\* An id as the provider or the snapshot carries it: absent, an int or a string.
NoId == [t |-> "none", n |-> 0, s |-> ""]

IntId(n) == [t |-> "int", n |-> n, s |-> ""]

StrId(t) == [t |-> "str", n |-> 0, s |-> t]

\* str(x)
PyStr(x) == IF x.t = "int" THEN IntStr(x.n) ELSE x.s

\* str(x).strip() is non-empty
NonBlank(t) == t \notin {"", " "}

Markets == {"1", "2"}

\* The price fields of a market record as decoded from the snapshot.
Rec(bb, b_b, ba, b_a, ltp, l_t_p) ==
    [bestBid |-> bb, best_bid |-> b_b, bestAsk |-> ba, best_ask |-> b_a,
     lastTradePrice |-> ltp, last_trade_price |-> l_t_p]

NullRec == Rec(JNull, JNull, JNull, JNull, JNull, JNull)

Records ==
    { Rec(JNum(P40), JNull, JNum(P42), JNull, JNum(P41), JNull),
      Rec(JNum(P40), JNull, JNum(P42), JNull, JNum(P42), JNull),
      Rec(JNull, JStr("0.41"), JNull, JNum(P42), JNull, JStr("abc")),
      Rec(JNum(Zero), JNum(P40), JNum(Zero), JNull, JNum(P40), JNum(P41)) }

\* An element of the decoded array: a market record with its id, a record with
\* a null id, or something that is not an object.
Item(isDict, id, rec) == [isDict |-> isDict, id |-> id, rec |-> rec]

Items ==
    { Item(TRUE, id, r) : id \in {IntId(1), StrId("2")}, r \in Records }
      \cup { Item(TRUE, NoId, NullRec), Item(FALSE, NoId, NullRec) }

\* by_id.get(market_id): the item stored under the id, or None, written here
\* as the item that is no object.
NoItem == Item(FALSE, NoId, NullRec)

EmptyDict == [x \in {} |-> None]

\* d[k] = v
DictSet(d, k, v) == [x \in (DOMAIN d) \cup {k} |-> IF x = k THEN v ELSE d[x]]

\* d.get(k)
DictGet(d, k) == IF k \in DOMAIN d THEN d[k] ELSE None

\* Lines 66-70: the lookup built from the decoded body.
RECURSIVE IndexItems(_, _)
IndexItems(items, acc) ==
    IF items = << >> THEN acc
    ELSE LET m == Head(items)
         IN  IndexItems(Tail(items),
                        IF m.isDict /\ m.id.t # "none"
                        THEN DictSet(acc, PyStr(m.id), m)
                        ELSE acc)

ById(data) == IF data.isList THEN IndexItems(data.items, EmptyDict) ELSE EmptyDict

\* Line 56: the requested ids.
RECURSIVE WantOf(_)
WantOf(ids) ==
    IF ids = << >> THEN << >>
    ELSE (IF NonBlank(PyStr(Head(ids))) THEN << PyStr(Head(ids)) >> ELSE << >>)
         \o WantOf(Tail(ids))

\* Line 76: m = by_id.get(market_id)
Lookup(lookup, market_id) ==
    IF market_id \in DOMAIN lookup THEN lookup[market_id] ELSE NoItem

PresentAlways(m) == TRUE

\* Line 77: `if not m` skips None; an object holding an id is never empty.
Present(m) == m.isDict

\* Lines 88-90
BestBid(m) == ToFloat(PyOr(m.rec.bestBid, m.rec.best_bid))

BestAsk(m) == ToFloat(PyOr(m.rec.bestAsk, m.rec.best_ask))

LastTradePx(m) == ToFloat(PyOr(m.rec.lastTradePrice, m.rec.last_trade_price))

\* Line 94: the stored pair is overwritten with the new one.
StoredPair(prev, cur) == cur

StoredPxUnlessNone(prev_trade, px) == IF IsNone(px) THEN prev_trade ELSE px

\* Line 114: the stored trade price is overwritten, also with None.
StoredPx(prev_trade, px) == px

BookChangedBidOnly(prev, cur) == IsNone(prev) \/ prev[1] # cur[1]

BookChangedAlways(prev, cur) == TRUE

BookChangedBothSides(prev, cur) ==
    IsNone(prev) \/ (prev[1] # cur[1] /\ prev[2] # cur[2])

\* Line 105: prev != cur
BookChanged(prev, cur) == prev # cur

\* Line 115
TradeChanged(prev_trade, px) == ~IsNone(px) /\ px # prev_trade

\* Lines 117-127
Side(bid, ask, last_trade_px) ==
    The({ IF ~IsNone(best_ask) /\ Near(px, best_ask) THEN "buy"
          ELSE IF ~IsNone(best_bid) /\ Near(px, best_bid) THEN "sell"
          ELSE IF ~IsNone(best_bid) /\ ~IsNone(best_ask)
               THEN IF \E mid \in {FHalf(FAdd(best_bid, best_ask))} : FGe(px, mid)
                    THEN "buy" ELSE "sell"
               ELSE "buy"
          : best_bid \in {bid}, best_ask \in {ask}, px \in {last_trade_px} })

----------------------------------------------------------------------------
(* PolymarketGammaPollStream.events                                        *)

\* Bounds of the model
MaxTime == 3

MaxWant == 2

MaxItems == 2

Levels == {"ok", "error"}

\* What the provider can return: None, or a list of ids (ints, strings, blanks).
ProviderIds == {IntId(1), StrId("1"), StrId("2"), StrId(" ")}

SeqsUpTo(S, n) == UNION { [1..k -> S] : k \in 0..n }

ProviderResults == SeqsUpTo(ProviderIds, MaxWant)

\* What the fetch can decode: an array of items, or a body that is no array.
Bodies ==
    { [isList |-> TRUE, items |-> its] : its \in SeqsUpTo(Items, MaxItems) }
      \cup { [isList |-> FALSE, items |-> << >>] }

\* Failures of lines 61-64: transport error, non-2xx status, undecodable body.
\* Every lookup lines 66-70 can build, and every list line 56 can build.
Lookups == { ById(data) : data \in Bodies }

\* Lines 64-70: what a fetch that raised nothing leaves behind: whether the
\* decoded body was an array, and the lookup built from it.
Decoded ==
    { [root |-> IF data.isList THEN "array" ELSE "other", by_id |-> ById(data)] :
        data \in Bodies }

WantLists == { WantOf(res) : res \in ProviderResults \cup {None} }

FetchErrors == {"ClientError", "ClientResponseError", "JSONDecodeError"}

BookEvent(market_id, best_bid, best_ask, ts) ==
    [kind |-> "tob", market_id |-> market_id, best_bid |-> best_bid,
     best_ask |-> best_ask, price |-> None, side |-> "", ts |-> ts]

TradeEvent(market_id, price, side, ts) ==
    [kind |-> "trade", market_id |-> market_id, best_bid |-> None,
     best_ask |-> None, price |-> price, side |-> side, ts |-> ts]

TobTsAtYield(cycle_now, clock_now) == clock_now

\* Line 96-102: the TopOfBook of a cycle is stamped with the cycle's now.
TobTs(cycle_now, clock_now) == cycle_now

YieldsBookOnChange(prev, cur) == prev # cur

YieldsBookFirstOnly(prev, cur) == IsNone(prev)

\* Line 109: a BookEvent is yielded whether or not the book changed.
YieldsBook(prev, cur) == TRUE

AfterHandlerReraise == "raised"

AfterHandlerRetry == "poll"

\* Lines 146-154: the handler ends and the while loop goes on.
AfterHandler == "sleep"

CountObservedIfChanged(n, prev, cur) == IF prev # cur THEN n + 1 ELSE n

\* Line 108: observed += 1, for every market found.
CountObserved(n, prev, cur) == n + 1

RowAfterYield == FALSE

\* Lines 136-137: insert_tape is called before the TradeEvent is yielded.
RowBeforeYield == TRUE

CaughtClientErrorOnly(err) == err \in {"ClientError", "ClientResponseError"}

\* Line 60, 146: which failures `except Exception` catches.
Caught(err) == TRUE

VARIABLES
    pc,             \* where the generator is suspended or about to run
    clock,          \* time.time()
    last,           \* self._last
    last_trade_px,  \* self._last_trade_px
    want,           \* line 56
    by_id,          \* lines 66-70
    idx,            \* position of the for loop in want (line 75)
    now,            \* line 74
    changed,        \* line 72
    observed,       \* line 73
    emitted,        \* events yielded to the consumer in the current cycle
    tape,           \* rows given to insert_tape in the current cycle
    status,         \* upsert_runtime_status calls of the current cycle
    health,         \* the status register: the level of the latest upsert
    seen,           \* per market, its latest observation: pair, price, time
    seen0,          \* seen as it was when the current iteration began
    fetches,        \* fetches started in the current cycle
    root,           \* whether the body decoded in this cycle was an array
    taped,          \* per market, the pair of the latest tob row on the tape
    orders,         \* ShadowBroker: records given to store.insert_order
    returned,       \* ShadowBroker: the Orders place_limit returned, in order
    requests,       \* ShadowBroker: the requests placed, as they are after the call
    ret             \* ShadowBroker: the latest call, what it logged and returned

fvars == << pc, clock, last, last_trade_px, want, by_id, idx, now, changed,
            observed, emitted, tape, status, health, seen, seen0, fetches,
            root, taped >>

bvars == << orders, returned, requests, ret >>

vars == << fvars, bvars >>

obs == << last, last_trade_px >>

cyc == << want, by_id, idx, now, changed, observed, root >>

logs == << emitted, tape, status, health, fetches >>

hist == << seen, seen0, taped >>

Init ==
    /\ pc = "sleep"
    /\ clock = 0
    /\ last = EmptyDict
    /\ last_trade_px = EmptyDict
    /\ want = << >>
    /\ by_id = EmptyDict
    /\ idx = 1
    /\ now = 0
    /\ changed = 0
    /\ observed = 0
    /\ emitted = << >>
    /\ tape = << >>
    /\ status = << >>
    /\ health = "none"
    /\ seen = EmptyDict
    /\ seen0 = EmptyDict
    /\ fetches = 0
    /\ root = "none"
    /\ taped = EmptyDict
    /\ orders = << >>
    /\ returned = << >>
    /\ requests = << >>
    /\ ret = [op |-> "", logged |-> "", arg |-> "", order |-> << >>, fills |-> << >>,
              raised |-> ""]

\* store.insert_tape(ts, market_id, kind, payload)
TapeRow(ev) == [ts |-> ev.ts, market_id |-> ev.market_id, kind |-> ev.kind, payload |-> ev]

\* store.upsert_runtime_status(component="feed.gamma", level=..., message=...)
StatusRow(level, obsd, chgd) == [level |-> level, observed |-> obsd, changed |-> chgd]

\* Line 55: await asyncio.sleep(self._poll); a new iteration starts.  The
\* locals of the iteration before are dead (each is assigned before it is read
\* again) and the per-iteration records start empty.
Sleep ==
    /\ UNCHANGED bvars
    /\ pc = "sleep"
    /\ clock < MaxTime
    /\ clock' = clock + 1
    /\ pc' = "poll"
    /\ want' = << >>
    /\ by_id' = EmptyDict
    /\ idx' = 1
    /\ now' = 0
    /\ changed' = 0
    /\ observed' = 0
    /\ emitted' = << >>
    /\ tape' = << >>
    /\ status' = << >>
    /\ fetches' = 0
    /\ root' = "none"
    /\ seen0' = seen
    /\ UNCHANGED << obs, health, seen, taped >>

\* Lines 56-58: the provider is asked; nothing requested skips the cycle.
Provide ==
    /\ UNCHANGED bvars
    /\ pc = "poll"
    /\ \E w \in WantLists :
          /\ want' = w
          /\ pc' = IF w = << >> THEN "sleep" ELSE "fetch"
    /\ fetches' = IF pc' = "fetch" THEN fetches + 1 ELSE fetches
    /\ UNCHANGED << clock, obs, by_id, idx, now, changed, observed, root, emitted,
                    tape, status, health, hist >>

\* Lines 60-64 raise; lines 146-154 report the error.
FetchFail ==
    /\ UNCHANGED bvars
    /\ pc = "fetch"
    /\ \E err \in FetchErrors :
          /\ pc' = IF Caught(err) THEN AfterHandler ELSE "raised"
          /\ status' = IF Caught(err)
                       THEN Append(status, StatusRow("error", 0, 0))
                       ELSE status
          /\ health' = IF Caught(err) THEN "error" ELSE health
    /\ UNCHANGED << clock, obs, cyc, emitted, tape, hist, fetches >>

\* Lines 60-74: the body is decoded and indexed; the cycle's time is taken.
FetchOk ==
    /\ UNCHANGED bvars
    /\ pc = "fetch"
    /\ \E d \in Decoded :
          /\ root' = d.root
          /\ by_id' = d.by_id
    /\ changed' = 0
    /\ observed' = 0
    /\ now' = clock
    /\ idx' = 1
    /\ pc' = "loop"
    /\ UNCHANGED << clock, obs, want, logs, hist >>

\* Lines 76-78: a requested market that the lookup does not hold is skipped.
SkipAbsent ==
    /\ UNCHANGED bvars
    /\ pc = "loop"
    /\ idx <= Len(want)
    /\ ~Present(Lookup(by_id, want[idx]))
    /\ idx' = idx + 1
    /\ UNCHANGED << pc, clock, obs, want, by_id, now, changed, observed, root, logs,
                    hist >>

\* Lines 80-109: parse, compare with the stored pair, store, write the tape
\* row of a changed book, yield the BookEvent.
ObserveBook ==
    /\ UNCHANGED bvars
    /\ pc = "loop"
    /\ idx <= Len(want)
    /\ Present(Lookup(by_id, want[idx]))
    /\ LET market_id == want[idx]
           m         == Lookup(by_id, market_id)
           prev      == DictGet(last, market_id)
           cur       == << BestBid(m), BestAsk(m) >>
           ev        == BookEvent(market_id, cur[1], cur[2], TobTs(now, clock))
       IN  /\ last' = DictSet(last, market_id, StoredPair(prev, cur))
           /\ IF BookChanged(prev, cur)
              THEN /\ tape' = Append(tape, TapeRow(ev))
                   /\ taped' = DictSet(taped, market_id, cur)
                   /\ changed' = changed + 1
              ELSE UNCHANGED << tape, taped, changed >>
           /\ observed' = CountObserved(observed, prev, cur)
           /\ IF YieldsBook(prev, cur)
              THEN /\ emitted' = Append(emitted, ev)
                   /\ pc' = "book"
              ELSE /\ emitted' = emitted
                   /\ pc' = "resumed"
           /\ seen' = DictSet(seen, market_id,
                              [pair |-> cur, ts |-> ev.ts,
                               px |-> IF market_id \in DOMAIN seen
                                      THEN seen[market_id].px ELSE None])
    /\ UNCHANGED << clock, last_trade_px, want, by_id, idx, now, root, status,
                    health, seen0, fetches >>

\* The consumer asks for the next event: the generator resumes after a yield.
\* Time may have passed while the consumer held the event.
Resume ==
    /\ UNCHANGED bvars
    /\ pc \in {"book", "trade"}
    /\ pc' = IF pc = "book" THEN "resumed" ELSE "next"
    /\ \E d \in {0, 1} : clock + d <= MaxTime /\ clock' = clock + d
    /\ tape' = IF pc = "trade" /\ ~RowBeforeYield
               THEN Append(tape, TapeRow(emitted[Len(emitted)]))
               ELSE tape
    /\ UNCHANGED << obs, cyc, emitted, status, health, fetches, hist >>

\* Lines 113-137: compare with the stored trade price, store, and for a new
\* price write the tape row and yield the TradeEvent.
ObserveTrade ==
    /\ UNCHANGED bvars
    /\ pc = "resumed"
    /\ LET market_id  == want[idx]
           m          == Lookup(by_id, market_id)
           px         == LastTradePx(m)
           prev_trade == DictGet(last_trade_px, market_id)
           ev         == TradeEvent(market_id, px,
                                    Side(BestBid(m), BestAsk(m), px), now)
       IN  /\ last_trade_px' = DictSet(last_trade_px, market_id,
                                       StoredPx(prev_trade, px))
           /\ seen' = [seen EXCEPT ![market_id].px = px]
           /\ IF TradeChanged(prev_trade, px)
              THEN /\ tape' = IF RowBeforeYield THEN Append(tape, TapeRow(ev)) ELSE tape
                   /\ emitted' = Append(emitted, ev)
                   /\ pc' = "trade"
              ELSE /\ UNCHANGED << tape, emitted >>
                   /\ pc' = "next"
    /\ UNCHANGED << clock, last, cyc, status, health, seen0, taped, fetches >>

\* Line 75: the for loop moves to the next requested id.
NextMarket ==
    /\ UNCHANGED bvars
    /\ pc = "next"
    /\ idx' = idx + 1
    /\ pc' = "loop"
    /\ UNCHANGED << clock, obs, want, by_id, now, changed, observed, root, logs,
                    hist >>

\* Lines 139-145: all requested ids were handled; health is reported.
ReportOk ==
    /\ UNCHANGED bvars
    /\ pc = "loop"
    /\ idx > Len(want)
    /\ status' = Append(status, StatusRow("ok", observed, changed))
    /\ health' = "ok"
    /\ pc' = "sleep"
    /\ UNCHANGED << clock, obs, cyc, emitted, tape, hist, fetches >>

Next ==
    \/ Sleep
    \/ Provide
    \/ FetchFail
    \/ FetchOk
    \/ SkipAbsent
    \/ ObserveBook
    \/ Resume
    \/ ObserveTrade
    \/ NextMarket
    \/ ReportOk

Spec == Init /\ [][Next]_vars

\* The sleep of line 55 ends, the fetch of lines 61-64 returns or fails within
\* its 20 s timeout, and the consumer keeps asking for the next event.
FairSpec == Spec /\ WF_vars(Next)

----------------------------------------------------------------------------
(* ShadowBroker                                                            *)

MaxOrders == 2

\* The doubles 0.5, 1.0 and 10.0
P50 == <<16384, 0, 0>>

One == <<32768, 0, 0>>

Ten == <<327680, 0, 0>>

\* A number of a request: an int or a float of the given value.
PyInt(v) == [t |-> "int", v |-> v]

PyFloatNum(v) == [t |-> "float", v |-> v]

\* float(x)
PyFloat(x) == x.v

PyFloatRaisesUnlessFloat(x) == x.t # "float"

\* float(x) raises for a value that is no number (TypeError, ValueError).
PyFloatRaises(x) == x.t \notin {"int", "float"}

\* OrderRequest.meta: None or a dict.
NoMeta == [isNone |-> TRUE, d |-> EmptyDict]

Meta(d) == [isNone |-> FALSE, d |-> d]

Metas ==
    { NoMeta,
      Meta(EmptyDict),
      Meta(DictSet(EmptyDict, "execution_mode", "live")),
      Meta(DictSet(EmptyDict, "tag", "x")) }

\* OrderRequest(market_id, side, price, size, meta)
OrderRequests ==
    [market_id : {"m1"}, side : {"buy", "sell"},
     price : {PyInt(One), PyFloatNum(P50)}, size : {PyFloatNum(Ten)}, meta : Metas]

\* len(str(uuid.uuid4()))
UuidLen == 36

\* str(uuid.uuid4()): a string of UuidLen characters; n tells the values apart.
Uuid(n) == [chars |-> UuidLen, n |-> n]

\* Line 28: uuid4 draws a value that was not drawn before.
NewUuids(used) == { Uuid(n) : n \in 1..MaxOrders } \ used

\* Line 40: dict(req.meta or {}) is a new dict; the request's is not aliased.
MetaCopy(meta) ==
    [d |-> IF meta.isNone \/ meta.d = EmptyDict THEN EmptyDict ELSE meta.d,
     aliased |-> FALSE]

TagMetaKeepExisting(d) ==
    IF "execution_mode" \in DOMAIN d THEN d ELSE DictSet(d, "execution_mode", "shadow")

\* Line 41: meta["execution_mode"] = "shadow"
TagMeta(d) == DictSet(d, "execution_mode", "shadow")

\* Lines 30-39
ShadowOrder(oid, req, created_ts) ==
    [order_id |-> oid, market_id |-> req.market_id, side |-> req.side,
     price |-> PyFloat(req.price), size |-> PyFloat(req.size),
     created_ts |-> created_ts, status |-> "rejected", filled_size |-> Zero]

NoOrder == << >>

Call(op, logged, arg, order, fills) ==
    [op |-> op, logged |-> logged, arg |-> arg, order |-> order, fills |-> fills,
     raised |-> ""]

\* A call that ended in an exception: nothing logged, nothing returned.
Raised(op, arg, err) ==
    [op |-> op, logged |-> "", arg |-> arg, order |-> NoOrder, fills |-> << >>,
     raised |-> err]

\* TopOfBook and TradeTick inputs of on_book and on_trade.
Tobs == { [best_bid |-> b, best_ask |-> a] : b \in {None, P40}, a \in {None, P42} }

Trades == { [price |-> P41, side |-> sd] : sd \in {"buy", "sell"} }

BookFillsOfOrders(placed, market_id, tob) ==
    [i \in DOMAIN placed |->
        [order_id |-> placed[i].order_id, price |-> placed[i].price,
         size |-> placed[i].size]]

\* Line 64: return []
BookFills(placed, market_id, tob) == << >>

\* Line 69: return []
TradeFills(placed, market_id, trade) == << >>

\* base.py line 46: return []
DefaultTradeFills(market_id, trade) == << >>

CancelMarksOrder(stored, order_id) ==
    [i \in DOMAIN stored |->
        IF stored[i].order.order_id = order_id
        THEN [stored[i] EXCEPT !.order.status = "cancelled"]
        ELSE stored[i]]

\* Lines 54-56: cancel only logs; the store is not called.
AfterCancel(stored, order_id) == stored

\* Lines 58-59: cancel_all_market only logs; the store is not called.
AfterCancelAll(stored, market_id) == stored

\* Lines 27-52.  The coroutine awaits nothing, so a call is one step.
PlaceLimit ==
    /\ Len(orders) < MaxOrders
    /\ \E req \in OrderRequests :
       \E oid \in NewUuids({ returned[i].order_id : i \in DOMAIN returned }) :
          IF PyFloatRaises(req.price) \/ PyFloatRaises(req.size)
          THEN /\ ret' = Raised("place_limit", req.market_id, "ValueError")
               /\ UNCHANGED << orders, returned, requests >>
          ELSE
          LET o    == ShadowOrder(oid, req, clock)
              copy == MetaCopy(req.meta)
              meta == TagMeta(copy.d)
          IN  /\ orders' = Append(orders, [order |-> o, meta |-> meta])
              /\ returned' = Append(returned, o)
              /\ requests' =
                    Append(requests,
                           [req |-> req,
                            meta_after |-> IF copy.aliased THEN Meta(meta) ELSE req.meta])
              /\ ret' = Call("place_limit", "order.shadow", req.market_id, o, << >>)
    /\ UNCHANGED fvars

\* Lines 54-56
Cancel ==
    /\ \E order_id \in { Uuid(n) : n \in 1..MaxOrders } :
          /\ orders' = AfterCancel(orders, order_id)
          /\ ret' = Call("cancel", "order.cancel.shadow", order_id, NoOrder, << >>)
    /\ UNCHANGED << fvars, returned, requests >>

\* Lines 58-59
CancelAllMarket ==
    /\ \E market_id \in {"m1", "m2"} :
          /\ orders' = AfterCancelAll(orders, market_id)
          /\ ret' = Call("cancel_all_market", "order.cancel_all_market.shadow",
                         market_id, NoOrder, << >>)
    /\ UNCHANGED << fvars, returned, requests >>

\* Lines 61-64
OnBook ==
    /\ \E market_id \in {"m1", "m2"}, tob \in Tobs :
          ret' = Call("on_book", "", market_id, NoOrder,
                      BookFills(returned, market_id, tob))
    /\ UNCHANGED << fvars, orders, returned, requests >>

\* Lines 66-69
OnTrade ==
    /\ \E market_id \in {"m1", "m2"}, trade \in Trades :
          ret' = Call("on_trade", "", market_id, NoOrder,
                      TradeFills(returned, market_id, trade))
    /\ UNCHANGED << fvars, orders, returned, requests >>

\* base.py lines 39-46: the on_trade a backend inherits when it defines none.
DefaultOnTrade ==
    /\ \E market_id \in {"m1", "m2"}, trade \in Trades :
          ret' = Call("Broker.on_trade", "", market_id, NoOrder,
                      DefaultTradeFills(market_id, trade))
    /\ UNCHANGED << fvars, orders, returned, requests >>

BrokerNext ==
    \/ PlaceLimit
    \/ Cancel
    \/ CancelAllMarket
    \/ OnBook
    \/ OnTrade
    \/ DefaultOnTrade

BrokerSpec == Init /\ [][BrokerNext]_vars

----------------------------------------------------------------------------
(* Properties of events()                                                  *)

Range(f) == { f[i] : i \in DOMAIN f }

\* Number of places of the list w that hold market m.
Occ(w, m) == Cardinality({ i \in DOMAIN w : w[i] = m })

\* Number of events of a kind yielded for market m in the current cycle.
CountEv(kind, m) ==
    Cardinality({ i \in DOMAIN emitted :
                    emitted[i].kind = kind /\ emitted[i].market_id = m })

CountAllEv(kind) == Cardinality({ i \in DOMAIN emitted : emitted[i].kind = kind })

CountRows(kind, m) ==
    Cardinality({ i \in DOMAIN tape :
                    tape[i].kind = kind /\ tape[i].market_id = m })

\* The requested ids that the lookup holds.
Found == { m \in Range(want) : m \in DOMAIN by_id }

\* A cycle that ran to its ok report and whose records are still in place.
CycleOk == pc = "sleep" /\ status # << >> /\ status[1].level = "ok"

Added(old, new) ==
    IF Len(new) > Len(old) THEN SubSeq(new, Len(old) + 1, Len(new)) ELSE << >>

\* The step of lines 80-109 for the requested id at the loop's position.
BookStep == pc = "loop" /\ pc' \in {"book", "resumed"}

\* The step of lines 113-137.
TradeStep == pc = "resumed" /\ pc' \in {"trade", "next"}

\* The step in which the fetch of lines 60-64 raises.
FailStep == pc = "fetch" /\ pc' # "loop"

\* C2: a step writes a tape row of kind tob for a market exactly when it
\* observes that market (requested and present) with a (best_bid, best_ask)
\* pair that differs from the pair of the market's previous observation, or
\* observes it for the first time; the row carries the observed pair, and a
\* step writes at most one row.
C2_TobRowIffPairDiffers ==
    [][ /\ Len(Added(tape, tape')) <= 1
        /\ \A m \in Markets :
              (\E r \in Range(Added(tape, tape')) :
                    r.kind = "tob" /\ r.market_id = m)
              <=> /\ BookStep
                  /\ want[idx] = m
                  /\ m \notin DOMAIN seen \/ seen[m].pair # seen'[m].pair
        /\ \A r \in Range(Added(tape, tape')) :
              r.kind = "tob" =>
                 << r.payload.best_bid, r.payload.best_ask >> = seen'[r.market_id].pair
      ]_vars

\* A market observed before is observed again with another pair and its tape
\* row is written; in the same cycle a row was written for a first observation.
C2_Witness ==
    /\ pc = "book"
    /\ LET m == want[idx]
       IN  /\ m \in DOMAIN seen0
           /\ seen0[m].pair # seen[m].pair
           /\ CountRows("tob", m) = 1
    /\ \E m \in Markets : m \notin DOMAIN seen0 /\ CountRows("tob", m) = 1

\* C3: a step yields a TradeEvent for a market exactly when it observes for
\* that market a last-trade price that is not None and differs from the price
\* of the market's previous observation (None when there was none); the event
\* carries the observed price.
C3_TradeEventIffPriceDiffers ==
    [][ /\ \A m \in Markets :
              (\E ev \in Range(Added(emitted, emitted')) :
                    ev.kind = "trade" /\ ev.market_id = m)
              <=> /\ TradeStep
                  /\ want[idx] = m
                  /\ ~IsNone(seen'[m].px)
                  /\ seen'[m].px # seen[m].px
        /\ \A ev \in Range(Added(emitted, emitted')) :
              ev.kind = "trade" => ev.price = seen'[ev.market_id].px
      ]_vars

\* A market whose price was observed, then observed as None, is observed with
\* a price again and the TradeEvent is yielded.
C3_Witness ==
    /\ pc = "trade"
    /\ LET m == want[idx]
       IN  /\ m \in DOMAIN seen0
           /\ IsNone(seen0[m].px)
           /\ m \in DOMAIN last_trade_px
           /\ CountEv("trade", m) = 1

\* C4: a cycle whose fetch raises writes exactly one status, of level error,
\* yields no event and writes no tape row, changes no stored pair and no stored
\* trade price, and leaves the generator at the head of the loop; the cycle
\* after a failed one yields its BookEvents as any other.
C4_FailedFetchCycle ==
    [][ /\ FailStep =>
              /\ emitted = << >> /\ tape = << >> /\ status = << >>
              /\ emitted' = << >> /\ tape' = << >>
              /\ Len(status') = 1 /\ status'[1].level = "error"
              /\ health' = "error"
              /\ pc' = "sleep"
        /\ (pc \in {"sleep", "poll", "fetch"} /\ pc' # "loop") => UNCHANGED obs
        /\ (health = "error" /\ pc = "loop" /\ idx > Len(want)) =>
              CountAllEv("tob") =
                 Cardinality({ i \in DOMAIN want : want[i] \in DOMAIN by_id })
      ]_vars

\* After a failed cycle, with markets observed before it, the next cycle has
\* yielded its events and is about to report ok.
C4_Witness ==
    /\ health = "error"
    /\ pc = "loop"
    /\ idx > Len(want)
    /\ CountAllEv("tob") >= 1
    /\ DOMAIN seen0 # {}

ParsedPair(m) == << BestBid(Lookup(by_id, m)), BestAsk(Lookup(by_id, m)) >>

ParsedPx(m) == LastTradePx(Lookup(by_id, m))

\* Every requested market found in the snapshot shows the bid, ask and trade
\* price of its latest observation in an earlier cycle.
Reobserved ==
    /\ Found # {}
    /\ \A m \in Found :
          /\ m \in DOMAIN seen0
          /\ seen0[m].pair = ParsedPair(m)
          /\ seen0[m].px = ParsedPx(m)

C8_AbsentMarketSkipped ==
    /\ [][ (pc = "loop" /\ idx <= Len(want) /\ want[idx] \notin DOMAIN by_id) =>
              /\ pc' = "loop"
              /\ idx' = idx + 1
              /\ UNCHANGED << last, last_trade_px, emitted, tape, status, health >>
         ]_vars
    /\ [][ /\ DOMAIN last \subseteq DOMAIN last'
           /\ DOMAIN last_trade_px \subseteq DOMAIN last_trade_px' ]_vars
    /\ [](/\ DOMAIN last = DOMAIN seen
          /\ \A m \in DOMAIN seen :
                /\ last[m] = seen[m].pair
                /\ DictGet(last_trade_px, m) = seen[m].px)

\* A market observed in an earlier cycle is requested, absent from the
\* snapshot and skipped; a later requested market is then observed.
C8_Witness ==
    /\ pc = "book"
    /\ idx = 2
    /\ want[1] \notin DOMAIN by_id
    /\ want[1] \in DOMAIN last
    /\ emitted # << >>

\* The decimal value, in hundredths, that a price of the model is the double of.
Cents(x) ==
    CASE x = Zero -> 0
      [] x = P40  -> 40
      [] x = P41  -> 41
      [] x = P42  -> 42

\* The side by the stated precedence, on the decimal values.
StatedSide(best_bid, best_ask, px) ==
    IF ~IsNone(best_ask) /\ px = best_ask THEN "buy"
    ELSE IF ~IsNone(best_bid) /\ px = best_bid THEN "sell"
    ELSE IF ~IsNone(best_bid) /\ ~IsNone(best_ask)
         THEN IF 2 * Cents(px) >= Cents(best_bid) + Cents(best_ask)
              THEN "buy" ELSE "sell"
         ELSE "buy"

\* C9: every TradeEvent has the side of the stated precedence: buy at the
\* ask, else sell at the bid, else with both present buy at or above the
\* midpoint and sell below it, else buy; so bid 0.40, ask 0.42, price 0.41
\* gives buy.
C9_SideByPrecedence ==
    \A i \in DOMAIN emitted :
        emitted[i].kind = "trade" =>
            emitted[i].side =
                StatedSide(ParsedPair(emitted[i].market_id)[1],
                           ParsedPair(emitted[i].market_id)[2],
                           emitted[i].price)

----------------------------------------------------------------------------
(* Properties of ShadowBroker                                              *)

\* C10: after any sequence of broker calls, each place_limit call returned an
\* Order with status rejected, filled_size 0, the market, side, price and size
\* of its request and a non-empty order_id that no earlier call returned; one
\* order record was persisted per call, holding that Order and metadata that
\* carry execution_mode = shadow and keep the request's other entries; and the
\* request's metadata are as they were.
C10_PlaceLimitRejectsAndRecords ==
    /\ Len(orders) = Len(returned)
    /\ Len(requests) = Len(returned)
    /\ \A i \in DOMAIN returned :
          LET o   == returned[i]
              req == requests[i].req
          IN  /\ o.status = "rejected"
              /\ o.filled_size = Zero
              /\ o.market_id = req.market_id
              /\ o.side = req.side
              /\ o.price = req.price.v
              /\ o.size = req.size.v
              /\ o.order_id.chars > 0
              /\ \A j \in 1..(i - 1) : returned[j].order_id # o.order_id
              /\ orders[i].order = o
              /\ "execution_mode" \in DOMAIN orders[i].meta
              /\ orders[i].meta["execution_mode"] = "shadow"
              /\ \A k \in DOMAIN req.meta.d :
                    k # "execution_mode" =>
                       k \in DOMAIN orders[i].meta /\ orders[i].meta[k] = req.meta.d[k]
              /\ requests[i].meta_after = req.meta

\* Two orders were placed, the later one with metadata that already had an
\* execution_mode entry, and a cancel came between or after them.
C10_Witness ==
    /\ Len(returned) = 2
    /\ "execution_mode" \in DOMAIN requests[2].req.meta.d
    /\ requests[1].req.meta.isNone
    /\ ret.op = "cancel"

\* C11: after any sequence of broker calls, every on_book call, every
\* on_trade call and every call of the contract's default on_trade has
\* returned an empty sequence of fills, whatever was placed before and
\* whatever book or trade it was given.
C11_NeverFills ==
    ret.op \in {"on_book", "on_trade", "Broker.on_trade"} =>
        ret.raised = "" /\ ret.fills = << >>

\* Two orders are on record and on_book was just called.
C11_Witness ==
    /\ Len(returned) = 2
    /\ ret.op = "on_book"

C13_CancelPersistsNothing ==
    /\ [](Len(orders) = Len(requests))
    /\ [][ret'.op \in {"cancel", "cancel_all_market"} => orders' = orders]_vars

\* The order on record was just cancelled by its id.
C13_Witness ==
    /\ Len(orders) = 1
    /\ ret.op = "cancel"
    /\ ret.arg = orders[1].order.order_id

----------------------------------------------------------------------------
(* Further properties of events()                                          *)

\* A cycle with a non-empty requested set has run to its end.
CycleEnded == pc = "sleep" /\ want # << >>

CountAllRows(kind) == Cardinality({ i \in DOMAIN tape : tape[i].kind = kind })

\* C14: a cycle never has more than one status report; a cycle with a
\* non-empty requested set that ran to its end has exactly one, at level ok or
\* error; an ok report is issued by a step taken when every requested id was
\* handled and the generator is not suspended at a yield; its observed count is
\* the number of BookEvents of the cycle, its changed count the number of tob
\* tape rows of the cycle, and changed <= observed <= number of requested ids.
C14_OneStatusPerCycle ==
    /\ [](Len(status) <= 1)
    /\ [](CycleEnded =>
            /\ Len(status) = 1
            /\ status[1].level \in Levels
            /\ status[1].level = "ok" =>
                  /\ idx > Len(want)
                  /\ status[1].observed = CountAllEv("tob")
                  /\ status[1].changed = CountAllRows("tob")
                  /\ status[1].changed <= status[1].observed
                  /\ status[1].observed <= Len(want))
    /\ [][(status' # status /\ status' # << >> /\ status'[Len(status')].level = "ok")
            => pc = "loop" /\ idx > Len(want) /\ emitted' = emitted /\ tape' = tape]_vars

\* A cycle after the first ended with an ok report that counts two observed
\* markets, one of them changed.
C14_Witness ==
    /\ CycleEnded
    /\ status[1].level = "ok"
    /\ status[1].observed = 2
    /\ status[1].changed = 1
    /\ clock >= 2

\* The provider's result holds no id, or only ids that are blank.
NothingRequested(res) == \A i \in DOMAIN res : ~NonBlank(PyStr(res[i]))

\* The iteration found nothing requested and went back to the sleep.
CycleSkipped == pc = "sleep" /\ want = << >> /\ clock > 0

\* C15: a provider result that is absent, empty or all blank requests nothing;
\* the step that finds nothing requested goes back to the sleep without a
\* fetch, an event, a tape row or a status report and leaves the status
\* register and the observation state as they were; and no iteration starts
\* more than one fetch, so a sleep lies between any two fetches, also after a
\* failed one.
C15_EmptyRequestSkipsCycle ==
    /\ [](\A res \in ProviderResults \cup {None} :
             NothingRequested(res) => WantOf(res) = << >>)
    /\ [][(pc = "poll" /\ want' = << >>) =>
             /\ pc' = "sleep"
             /\ fetches' = 0
             /\ UNCHANGED << emitted, tape, status, health, last, last_trade_px,
                             taped, clock >>]_vars
    /\ [](CycleSkipped =>
             /\ fetches = 0
             /\ emitted = << >>
             /\ tape = << >>
             /\ status = << >>
             /\ seen = seen0)
    /\ [](fetches <= 1)
    /\ [][fetches' > fetches => pc = "poll" /\ fetches = 0]_vars

\* An iteration was skipped after markets had been observed and while the
\* status register shows the failure of an earlier cycle.
C15_Witness ==
    /\ CycleSkipped
    /\ DOMAIN last # {}
    /\ health = "error"

\* C16: a cycle whose fetch decoded a body that is not an array ends like a
\* failed fetch: with one status report at level error, the status register
\* at error, no event and no tape row, and the generator back at the sleep.
C16_MalformedRootIsFailure ==
    root = "other" =>
        /\ emitted = << >>
        /\ tape = << >>
        /\ \A i \in DOMAIN status : status[i].level = "error"
        /\ pc = "sleep" => Len(status) = 1 /\ health = "error"

\* The first of two spellings that is present (not null) in the record.
FirstPresent(a, b) == IF a # JNull THEN a ELSE b

\* C17: every BookEvent carries as best_bid and best_ask the coercion of the
\* first present spelling of the field in the market's record, a numeric zero
\* included, and the trade price stored for an observed market is the coercion
\* of the first present spelling of the last trade price; a null in both
\* spellings or a value that is no number gives an absent value.
C17_FirstPresentSpelling ==
    /\ \A i \in DOMAIN emitted :
          emitted[i].kind = "tob" =>
             LET r == Lookup(by_id, emitted[i].market_id).rec
             IN  /\ emitted[i].best_bid = ToFloat(FirstPresent(r.bestBid, r.best_bid))
                 /\ emitted[i].best_ask = ToFloat(FirstPresent(r.bestAsk, r.best_ask))
    /\ pc \in {"trade", "next"} =>
          LET r == Lookup(by_id, want[idx]).rec
          IN  last_trade_px[want[idx]] =
                 ToFloat(FirstPresent(r.lastTradePrice, r.last_trade_price))

\* The places of the requested list whose id the lookup holds.
FoundPlaces == { i \in DOMAIN want : want[i] \in DOMAIN by_id }

\* The k-th smallest element of a set of numbers.
Kth(S, k) == CHOOSE x \in S : Cardinality({ y \in S : y < x }) = k - 1

\* Number of BookEvents among the first i events of the cycle.
TobsUpTo(i) == Cardinality({ j \in 1..i : emitted[j].kind = "tob" })

\* The loop has yielded the BookEvent of the place it is at.
AtYielded == pc \in {"book", "resumed", "trade", "next"}

\* C18: the events of a cycle follow the requested list: the k-th BookEvent
\* is that of the k-th listed place whose id was found, every place the loop
\* has passed has its BookEvent, and a TradeEvent comes right after the
\* BookEvent of its own market, so before every event of a place listed later.
\* Events are only ever added at the end of the running cycle's sequence, and
\* a new sequence is begun only from the sleep, after the cycle before ended.
C18_ProviderOrder ==
    /\ [](/\ TobsUpTo(Len(emitted)) =
               Cardinality({ p \in FoundPlaces : p < idx \/ (p = idx /\ AtYielded) })
          /\ \A i \in DOMAIN emitted :
                /\ TobsUpTo(i) >= 1
                /\ emitted[i].market_id = want[Kth(FoundPlaces, TobsUpTo(i))]
                /\ emitted[i].kind = "trade" =>
                      /\ emitted[i - 1].kind = "tob"
                      /\ emitted[i - 1].market_id = emitted[i].market_id)
    /\ [][emitted' # emitted =>
             \/ /\ pc \in {"loop", "resumed"}
                /\ Len(emitted') = Len(emitted) + 1
                /\ SubSeq(emitted', 1, Len(emitted)) = emitted
             \/ /\ pc = "sleep"
                /\ emitted' = << >>]_vars

\* Two different markets were requested, the second listed first, and both
\* had a BookEvent and a TradeEvent.
C18_Witness ==
    /\ want = << "2", "1" >>
    /\ Len(emitted) = 4
    /\ emitted[2].kind = "trade"
    /\ emitted[4].kind = "trade"

\* C19: at every point each TradeEvent yielded in the cycle has a trade row
\* on the tape with its market, price, side and timestamp, the trade rows are
\* at least as many as the TradeEvents and at most one more, and the step that
\* yields the BookEvent of a pair that differs from the market's previous one
\* has put the tob row of that event on the tape.
C19_PersistBeforeEmit ==
    /\ [](/\ \A i \in DOMAIN emitted :
                emitted[i].kind = "trade" =>
                   \E j \in DOMAIN tape :
                      /\ tape[j].kind = "trade"
                      /\ tape[j].market_id = emitted[i].market_id
                      /\ tape[j].ts = emitted[i].ts
                      /\ tape[j].payload.price = emitted[i].price
                      /\ tape[j].payload.side = emitted[i].side
                      /\ tape[j].payload.ts = emitted[i].ts
          /\ CountAllRows("trade") >= CountAllEv("trade")
          /\ CountAllRows("trade") <= CountAllEv("trade") + 1)
    /\ [][(/\ BookStep
           /\ emitted' # emitted
           /\ want[idx] \notin DOMAIN seen \/ seen[want[idx]].pair # seen'[want[idx]].pair)
          => tape' = Append(tape, TapeRow(emitted'[Len(emitted')]))]_vars

\* The generator is suspended at the yield of the second TradeEvent of a
\* cycle.
C19_Witness ==
    /\ pc = "trade"
    /\ CountAllEv("trade") = 2
    /\ CountAllRows("tob") >= 1

\* C20: whenever the generator is at the sleep between cycles, the pair stored
\* for a market is the pair of the latest tob row written for that market, and
\* a market has a stored pair exactly if it has such a row.
C20_StoredPairIsOnTape ==
    pc = "sleep" =>
        /\ DOMAIN last = DOMAIN taped
        /\ \A m \in DOMAIN last : last[m] = taped[m]

\* After a failed cycle at the last tick, a market observed earlier has its
\* stored pair, while another market has never been observed.
C20_Witness ==
    /\ pc = "sleep"
    /\ health = "error"
    /\ "1" \in DOMAIN last
    /\ "2" \notin DOMAIN last
    /\ last["1"] = << P41, P42 >>
    /\ clock = MaxTime

=============================================================================
